---- MODULE Spec2Model ----
(***************************************************************************)
(* Location resolution for a diary entry (design note "天气配置设计",        *)
(* src/unnamed/part_000): keyword table, keyword scan, regex extraction,   *)
(* three-level priority (message, user config, system default) and title   *)
(* annotation.                                                             *)
(*                                                                         *)
(* Text is a sequence of characters; one token stands for one character:   *)
(*   zai 在  qu 去  dao 到  shi 市  qv 区  xian 县  de 的  tian 天  qi 气   *)
(*   bei 北  jing 京  shang 上  hai 海  hang 杭  zhou 州  shen 深  zhen 圳  *)
(*   cheng 成  du 都  guang 广  pu 普  er 洱  xiang 香  gang 港  dong 东    *)
(*   wan 湾  hu 沪  sp (a blank)                                           *)
(* Optional[T] is a sequence of length at most one: None is <<>> and a     *)
(* present value v is <<v>>.                                               *)
(***************************************************************************)
EXTENDS Integers, Sequences, FiniteSets, TLC

VARIABLES LOCATION_KEYWORDS, user_config, user_id, message, out, scanned, reg

vars == <<LOCATION_KEYWORDS, user_config, user_id, message, out, scanned, reg>>

\* ---------------------------------------------------------------- bounds
\* longest message text
MaxLen == 4

\* ------------------------------------------------------------ Optional[T]
None == <<>>
Some(v) == <<v>>

Min(S) == CHOOSE x \in S : \A y \in S : x <= y
Max(S) == CHOOSE x \in S : \A y \in S : y <= x

\* ------------------------------------------------------------- characters
\* characters a message text is drawn from
MsgChars == {"zai", "qu", "hang", "zhou", "hu", "tian", "qi", "sp"}
\* characters a scanned text is drawn from
ScanChars == {"hang", "zhou", "wan", "hu"}

\* \w of Python's re on str: letters, digits, underscore; a blank is not
IsWord(c) == c # "sp"

Texts(chars, n) == UNION {[1..k -> chars] : k \in 0..n}

\* `cn in message`: cn occurs in text as a contiguous substring
Contains(text, cn) ==
    \E i \in 1..(Len(text) - Len(cn) + 1) : SubSeq(text, i, i + Len(cn) - 1) = cn

\* ---------------------------------------------------------- keyword table
LOCATION_KEYWORDS_literal ==
    << <<<<"bei", "jing">>, "Beijing">>,
       <<<<"shang", "hai">>, "Shanghai">>,
       <<<<"hang", "zhou">>, "Hangzhou">>,
       <<<<"shen", "zhen">>, "Shenzhen">>,
       <<<<"cheng", "du">>, "Chengdu">>,
       <<<<"guang", "zhou">>, "Guangzhou">>,
       <<<<"pu", "er">>, "Puer">>,
       <<<<"xiang", "gang">>, "Hong Kong">>,
       <<<<"dong", "jing">>, "Tokyo">> >>

\* entries an operator may append ("可扩展"): a one-character short name and
\* a longer name that contains a listed one
ExtNames == {<<"hu">>, <<"hang", "zhou", "wan">>, <<"hang", "zhou">>}
ExtIds == {"Shanghai", "Hangzhou", "Hangzhou Bay"}

Names(dict) == {dict[i][1] : i \in 1..Len(dict)}

\* dict.get(key): the value stored under key, or None
RECURSIVE get_from(_, _, _)
get_from(dict, i, cn) ==
    IF i > Len(dict) THEN None
    ELSE IF dict[i][1] = cn THEN Some(dict[i][2])
    ELSE get_from(dict, i + 1, cn)

DictGet(dict, cn) == get_from(dict, 1, cn)

\* ------------------------------------------------------- keyword scan (§3)
\* variant: no early return, the last listed name that occurs wins
scan_last(dict, i, text) ==
    LET S == {j \in i..Len(dict) : Contains(text, dict[j][1])}
    IN IF S = {} THEN None ELSE Some(dict[Max(S)][2])

RECURSIVE scan_from(_, _, _)
scan_from(dict, i, text) ==
    IF i > Len(dict) THEN None
    ELSE IF Contains(text, dict[i][1]) THEN Some(dict[i][2])
    ELSE scan_from(dict, i + 1, text)

\* for cn, en in LOCATION_KEYWORDS.items(): if cn in message: return en
extract_location_from_message(text) == scan_from(LOCATION_KEYWORDS, 1, text)

\* ------------------------------------------------------ regex search (§6)
SuffixChars == {"shi", "qv", "xian"}

At(s, j, c) == j <= Len(s) /\ s[j] = c

\* last position of the run of \w characters that starts at i
RECURSIVE RunEnd(_, _)
RunEnd(s, i) ==
    IF i + 1 <= Len(s) /\ IsWord(s[i + 1]) THEN RunEnd(s, i + 1) ELSE i

\* cue(\w+)[市区县]?: the leftmost cue followed by a \w character; the group
\* is greedy and takes the whole run, and the optional item after it matches
\* empty (a character of 市区县 is a \w character, so the run has taken it)
RECURSIVE LeadCapture(_, _, _)
LeadCapture(cue, s, i) ==
    IF i + 1 > Len(s) THEN None
    ELSE IF s[i] = cue /\ IsWord(s[i + 1])
    THEN Some(SubSeq(s, i + 1, RunEnd(s, i + 1)))
    ELSE LeadCapture(cue, s, i + 1)

\* [市区县]?的?天气 at position j
WeatherTail(s, j) ==
    \E a \in {0, 1}, b \in {0, 1} :
        /\ a = 1 => (j <= Len(s) /\ s[j] \in SuffixChars)
        /\ b = 1 => At(s, j + a, "de")
        /\ At(s, j + a + b, "tian")
        /\ At(s, j + a + b + 1, "qi")

\* the greedy group (\w+) from i gives characters back until the rest of the
\* pattern matches: the greatest end k <= top, or 0 when there is none
RECURSIVE GreedyEnd(_, _, _)
GreedyEnd(s, i, top) ==
    IF top < i THEN 0
    ELSE IF WeatherTail(s, top + 1) THEN top
    ELSE GreedyEnd(s, i, top - 1)

\* (\w+)[市区县]?的?天气: the leftmost start at which the pattern matches
RECURSIVE WeatherCapture(_, _)
WeatherCapture(s, i) ==
    IF i > Len(s) THEN None
    ELSE LET k == IF IsWord(s[i]) THEN GreedyEnd(s, i, RunEnd(s, i)) ELSE 0
         IN IF k # 0 THEN Some(SubSeq(s, i, k)) ELSE WeatherCapture(s, i + 1)

\* the ordered pattern list of _extract_from_message
patterns ==
    << [kind |-> "lead", cue |-> "zai"],
       [kind |-> "lead", cue |-> "qu"],
       [kind |-> "lead", cue |-> "dao"],
       [kind |-> "weather", cue |-> "tian"] >>

\* re.search(pattern, message).group(1), or None when nothing matches
Capture(p, s) ==
    IF p.kind = "lead" THEN LeadCapture(p.cue, s, 1) ELSE WeatherCapture(s, 1)

\* the city table (中文 -> 英文) that _extract_from_message reads
CITY_MAP == LOCATION_KEYWORDS

RECURSIVE extract_with(_, _)
extract_with(pats, text) ==
    IF pats = <<>> THEN None
    ELSE LET match == Capture(Head(pats), text)
         IN IF match # None THEN DictGet(CITY_MAP, match[1])
            ELSE extract_with(Tail(pats), text)

_extract_from_message(text) == extract_with(patterns, text)

\* ------------------------------------------------------- priority (§5, §6)
DEFAULT_LOCATION == "Shanghai"

\* Python truth value of an Optional[str]: neither None nor ""
Truthy(opt) == opt # None /\ opt[1] # ""
\* the same for a message, whose text is a sequence of characters
TruthyText(opt) == opt # None /\ opt[1] # <<>>

_get_user_config(uid) == user_config[uid]

\* variant: the stored value is used only when the table knows it
location_with_validated(pats, stored, msg) ==
    LET location == IF TruthyText(msg) THEN extract_with(pats, msg[1]) ELSE None
        known == {LOCATION_KEYWORDS[i][2] : i \in 1..Len(LOCATION_KEYWORDS)}
    IN IF Truthy(location)
       THEN [location |-> location[1], tier |-> "FromMessage"]
       ELSE IF Truthy(stored) /\ stored[1] \in known
       THEN [location |-> stored[1], tier |-> "FromUserConfig"]
       ELSE [location |-> DEFAULT_LOCATION, tier |-> "FromSystemDefault"]

\* variant: the stored value is used whenever the key is present, empty or not
location_with_unchecked(pats, stored, msg) ==
    LET location == IF TruthyText(msg) THEN extract_with(pats, msg[1]) ELSE None
    IN IF Truthy(location)
       THEN [location |-> location[1], tier |-> "FromMessage"]
       ELSE IF stored # None
       THEN [location |-> stored[1], tier |-> "FromUserConfig"]
       ELSE [location |-> DEFAULT_LOCATION, tier |-> "FromSystemDefault"]

\* variant: a message that yields no location goes straight to the default
location_with_early_default(pats, stored, msg) ==
    LET location == IF TruthyText(msg) THEN extract_with(pats, msg[1]) ELSE None
    IN IF Truthy(location)
       THEN [location |-> location[1], tier |-> "FromMessage"]
       ELSE IF Truthy(stored) /\ ~TruthyText(msg)
       THEN [location |-> stored[1], tier |-> "FromUserConfig"]
       ELSE [location |-> DEFAULT_LOCATION, tier |-> "FromSystemDefault"]

\* the body of get_location, given the pattern list and the stored value
location_with(pats, stored, msg) ==
    LET location == IF TruthyText(msg) THEN extract_with(pats, msg[1]) ELSE None
    IN IF Truthy(location)
       THEN [location |-> location[1], tier |-> "FromMessage"]
       ELSE IF Truthy(stored)
       THEN [location |-> stored[1], tier |-> "FromUserConfig"]
       ELSE [location |-> DEFAULT_LOCATION, tier |-> "FromSystemDefault"]

get_location(uid, msg) == location_with(patterns, _get_user_config(uid), msg)

\* ------------------------------------------------------------- title (§4)
TitleBase == <<"date", "weekday", "weather", "lunar">>

\* the name a location is shown under: the first listed name with that id
DisplayOf(dict, en) ==
    LET S == {i \in 1..Len(dict) : dict[i][2] = en}
    IN IF S = {} THEN <<en>> ELSE dict[Min(S)][1]

\* variant: every title is annotated
Title_always(res) ==
    TitleBase \o <<"dot">> \o DisplayOf(LOCATION_KEYWORDS, res.location)

\* 默认城市: no suffix; 指定城市: " · <name>" at the end of the title
Title(res) ==
    IF res.tier = "FromMessage"
    THEN TitleBase \o <<"dot">> \o DisplayOf(LOCATION_KEYWORDS, res.location)
    ELSE TitleBase

\* --------------------------------------------------------------- resolver
Users == {1}
ConfigValues == {"", "Mars"}
Messages == {None} \cup {Some(t) : t \in Texts(MsgChars, MaxLen)}
Dictionaries ==
    {LOCATION_KEYWORDS_literal,
     LOCATION_KEYWORDS_literal \o << <<<<"hu">>, "Shanghai">> >>}

Init ==
    /\ LOCATION_KEYWORDS \in Dictionaries
    /\ user_config = [u \in Users |-> None]
    /\ user_id \in Users
    /\ message \in Messages
    /\ out = None
    /\ scanned = None
    /\ reg = None

\* munin config weather.location <value>
SetConfig(u, v) ==
    /\ user_config' = [user_config EXCEPT ![u] = Some(v)]
    /\ UNCHANGED <<LOCATION_KEYWORDS, user_id, message, out, scanned, reg>>

\* variant: a location found in the message is saved as the user's default
Entry_remembering ==
    /\ \E res \in {get_location(user_id, message)} :
          /\ out' = Some([stored |-> _get_user_config(user_id),
                          location |-> res.location,
                          tier |-> res.tier,
                          title |-> Title(res)])
          /\ user_config' = IF res.tier = "FromMessage"
                            THEN [user_config EXCEPT ![user_id] = Some(res.location)]
                            ELSE user_config
    /\ UNCHANGED <<LOCATION_KEYWORDS, user_id, message, scanned, reg>>

\* a diary message arrives: resolve the location, then build the title
Entry ==
    /\ \E res \in {get_location(user_id, message)} :
          out' = Some([stored |-> _get_user_config(user_id),
                       location |-> res.location,
                       tier |-> res.tier,
                       title |-> Title(res)])
    /\ UNCHANGED <<LOCATION_KEYWORDS, user_config, user_id, message, scanned, reg>>

Next ==
    \/ \E u \in Users, v \in ConfigValues : SetConfig(u, v)
    \/ Entry

Spec == Init /\ [][Next]_vars

\* ------------------------------------------------------------- dictionary
ScanTexts == Texts(ScanChars, MaxLen)

InitDict ==
    /\ LOCATION_KEYWORDS = LOCATION_KEYWORDS_literal
    /\ user_config = [u \in Users |-> None]
    /\ user_id \in Users
    /\ message \in {Some(t) : t \in ScanTexts}
    /\ out = None
    /\ scanned = None
    /\ reg = None

\* variant: a name already held is overwritten with the new id
register_overwrite(dict, cn, en) ==
    IF DictGet(dict, cn) = None THEN [dict |-> Append(dict, <<cn, en>>), error |-> FALSE]
    ELSE [dict |-> [i \in 1..Len(dict) |->
                       IF dict[i][1] = cn THEN <<cn, en>> ELSE dict[i]],
          error |-> FALSE]

\* register(displayName, canonicalId): a new name is appended, an identical
\* entry changes nothing, a name held with another id raises
\* DuplicateLocationError and changes nothing
register(dict, cn, en) ==
    IF DictGet(dict, cn) = None THEN [dict |-> Append(dict, <<cn, en>>), error |-> FALSE]
    ELSE IF DictGet(dict, cn) = Some(en) THEN [dict |-> dict, error |-> FALSE]
    ELSE [dict |-> dict, error |-> TRUE]

\* DuplicateLocationError is fatal to startup
Failed == reg # None /\ reg[1].error

\* a register call while the table is being built, before any lookup
Register(cn, en) ==
    /\ ~Failed
    /\ scanned = None
    /\ \E r \in {register(LOCATION_KEYWORDS, cn, en)} :
          /\ LOCATION_KEYWORDS' = r.dict
          /\ reg' = Some([cn |-> cn, en |-> en, error |-> r.error])
    /\ UNCHANGED <<user_config, user_id, message, out, scanned>>

\* the keyword scan of the message, once the table is built
Scan ==
    /\ ~Failed
    /\ scanned' = Some([result |-> extract_location_from_message(message[1])])
    /\ UNCHANGED <<LOCATION_KEYWORDS, user_config, user_id, message, out, reg>>

NextDict ==
    \/ \E cn \in ExtNames, en \in ExtIds : Register(cn, en)
    \/ Scan

SpecDict == InitDict /\ [][NextDict]_vars

\* ================================================================ claims
\* what the last entry recorded, and the text of the message
Out == out[1]
Text == message[1]
Called == out # None

\* registered names that occur in the text
Occurring(dict, text) == {i \in 1..Len(dict) : Contains(text, dict[i][1])}
PatternIdx == 1..Len(patterns)

\* the result of the priority rule when the message gives nothing
Fallback(stored) ==
    IF stored # None /\ stored[1] # ""
    THEN [location |-> stored[1], tier |-> "FromUserConfig"]
    ELSE [location |-> DEFAULT_LOCATION, tier |-> "FromSystemDefault"]

Tiers == {"FromMessage", "FromUserConfig", "FromSystemDefault"}

\* C1: a message that contains exactly one registered name as a substring
\* resolves to that name's canonical id with tier FromMessage, whatever the
\* stored user default is.
C1_MessageWins ==
    (Called /\ message # None /\ Cardinality(Occurring(LOCATION_KEYWORDS, Text)) = 1)
    => LET i == CHOOSE j \in Occurring(LOCATION_KEYWORDS, Text) : TRUE
       IN Out.tier = "FromMessage" /\ Out.location = LOCATION_KEYWORDS[i][2]

\* C2: when the message is absent, or holds no registered name and no cue
\* capture that is a registered name, and the stored location is non-empty,
\* the result is exactly the stored string with tier FromUserConfig, whether
\* or not the dictionary knows that string.
C2_StoredTrusted ==
    (/\ Called
     /\ Out.stored # None
     /\ Out.stored[1] # ""
     /\ \/ message = None
        \/ /\ Occurring(LOCATION_KEYWORDS, Text) = {}
           /\ \A p \in PatternIdx :
                  LET c == Capture(patterns[p], Text)
                  IN c = None \/ c[1] \notin Names(LOCATION_KEYWORDS))
    => Out.location = Out.stored[1] /\ Out.tier = "FromUserConfig"

C2_Witness ==
    /\ Called
    /\ message # None
    /\ Capture(patterns[1], Text) # None
    /\ Occurring(LOCATION_KEYWORDS, Text) = {}
    /\ Out.stored = Some("Mars")
    /\ Out.location = "Mars"
    /\ Out.tier = "FromUserConfig"

\* C3: a message (absent and empty included) with no registered name and no
\* cue match, with no stored location or an empty one, resolves to the system
\* default with tier FromSystemDefault; and every result has a non-empty
\* location and one of the three tiers.
C3_SystemDefault ==
    Called =>
        /\ Out.location # ""
        /\ Out.tier \in Tiers
        /\ (/\ (Out.stored = None \/ Out.stored = Some(""))
            /\ \/ message = None
               \/ /\ \A p \in PatternIdx : Capture(patterns[p], Text) = None
                  /\ Occurring(LOCATION_KEYWORDS, Text) = {})
           => (Out.location = DEFAULT_LOCATION /\ Out.tier = "FromSystemDefault")

C3_Witness ==
    /\ Called
    /\ message # None
    /\ Len(Text) >= 2
    /\ Occurring(LOCATION_KEYWORDS, Text) = {}
    /\ \A p \in PatternIdx : Capture(patterns[p], Text) = None
    /\ Out.stored = Some("")
    /\ Out.location = DEFAULT_LOCATION
    /\ Out.tier = "FromSystemDefault"

\* C6: an entry never changes the keyword table or the stored user
\* configuration, and a further entry for the same message and user against
\* the same table and the same stored value returns the same result.
C6_Pure ==
    [][/\ (out' # out) => UNCHANGED <<LOCATION_KEYWORDS, user_config>>
       /\ (Called /\ Out.stored = _get_user_config(user_id)) => out' = out]_vars

C6_Witness ==
    /\ Called
    /\ Out.stored = _get_user_config(user_id)
    /\ Out.stored = Some("Mars")
    /\ Out.tier = "FromMessage"

\* C7: the title carries the location only when the tier is not
\* FromSystemDefault: a system-default resolution has no suffix, and a
\* location resolved from the message is the last item of the title.
C7_TitleSuffix ==
    Called =>
        /\ (Out.title # TitleBase) => Out.tier # "FromSystemDefault"
        /\ (Out.tier = "FromSystemDefault") => Out.title = TitleBase
        /\ (Out.tier = "FromMessage") =>
               LET name == DisplayOf(LOCATION_KEYWORDS, Out.location)
               IN /\ Len(Out.title) = Len(TitleBase) + 1 + Len(name)
                  /\ SubSeq(Out.title, 1, Len(TitleBase)) = TitleBase
                  /\ SubSeq(Out.title, Len(TitleBase) + 2, Len(Out.title)) = name

C7_Witness ==
    /\ Called
    /\ Out.tier = "FromMessage"
    /\ Out.location = "Hangzhou"
    /\ Out.title = TitleBase \o <<"dot", "hang", "zhou">>

\* C8: a FromMessage result is the canonical id of a registered entry, and a
\* cue whose capture is not a registered name is discarded: the result is the
\* one the resolution gives without that cue.
C8_CaptureDiscarded ==
    Called =>
        /\ (Out.tier = "FromMessage") =>
               \E i \in 1..Len(LOCATION_KEYWORDS) : LOCATION_KEYWORDS[i][2] = Out.location
        /\ \A p \in PatternIdx :
               (/\ message # None
                /\ Capture(patterns[p], Text) # None
                /\ Capture(patterns[p], Text)[1] \notin Names(LOCATION_KEYWORDS))
               => LET rest == SubSeq(patterns, 1, p - 1)
                              \o SubSeq(patterns, p + 1, Len(patterns))
                      r == location_with(rest, Out.stored, message)
                  IN Out.location = r.location /\ Out.tier = r.tier

\* C9: when the keyword scan and the pattern extraction both succeed on the
\* message with different locations, the result is the keyword scan's
\* location with tier FromMessage.
C9_ScanPrecedes ==
    (/\ Called
     /\ message # None
     /\ extract_location_from_message(Text) # None
     /\ _extract_from_message(Text) # None
     /\ extract_location_from_message(Text) # _extract_from_message(Text))
    => (/\ Out.location = extract_location_from_message(Text)[1]
        /\ Out.tier = "FromMessage")

\* C10: an empty message and a message of blanks only give the result an
\* absent message gives: never FromMessage, the stored user default if there
\* is one, else the system default.
C10_BlankAsAbsent ==
    (Called /\ message # None /\ \A i \in 1..Len(Text) : Text[i] = "sp")
    => LET r == Fallback(Out.stored)
       IN Out.location = r.location /\ Out.tier = r.tier

C10_Witness ==
    /\ Called
    /\ message # None
    /\ Len(Text) = 2
    /\ \A i \in 1..Len(Text) : Text[i] = "sp"
    /\ Out.tier = "FromUserConfig"

\* ------------------------------------------------- claims on the dictionary
Scanned == scanned # None
Result == scanned[1].result

\* the entry findLongestMatch is said to return: the longest registered name
\* occurring in the text, the earliest registered among the longest
LongestIdx(dict, text) ==
    LET occ == Occurring(dict, text)
        top == {i \in occ : \A j \in occ : Len(dict[j][1]) <= Len(dict[i][1])}
    IN Min(top)

UniqueNames(dict) ==
    \A i, j \in 1..Len(dict) : dict[i][1] = dict[j][1] => i = j

\* C5: every name of the table maps to one id; a register call for a name held
\* with another id raises and leaves the table as it was, a call identical to
\* an entry changes neither contents nor order, and any other call appends.
C5_Register ==
    /\ [](UniqueNames(LOCATION_KEYWORDS))
    /\ [][(reg' # reg \/ LOCATION_KEYWORDS' # LOCATION_KEYWORDS) =>
            LET c == reg'[1]
                held == DictGet(LOCATION_KEYWORDS, c.cn)
            IN /\ c.error = (held # None /\ held # Some(c.en))
               /\ held # None => LOCATION_KEYWORDS' = LOCATION_KEYWORDS
               /\ held = None =>
                      LOCATION_KEYWORDS' = Append(LOCATION_KEYWORDS, <<c.cn, c.en>>)]_vars

C5_Witness ==
    /\ Failed
    /\ reg[1].cn = <<"hu">>
    /\ reg[1].en = "Hangzhou"
    /\ DictGet(LOCATION_KEYWORDS, <<"hu">>) = Some("Shanghai")

====
